---- MODULE Spec2Model ----
(***************************************************************************)
(* Model of the Bepensa order integration script (cmd/bepensa/main.go; the *)
(* root main.go carries the same findFiles/splitFile/ingestFile/main).     *)
(*                                                                         *)
(* main discovers the CSV files of the day, splits each into part files    *)
(* (splitFile), and creates one integration execution per returned part    *)
(* (ingestFile).  The model follows the code statement by statement: one   *)
(* action per call or loop iteration, the collaborators (object stores,    *)
(* csv reader and writer, HTTP endpoints) as nondeterministic outcomes.    *)
(*                                                                         *)
(* Text is modelled as sequences of one-character strings, a CSV record as *)
(* a sequence of such fields.  Quantities are fixed-point numbers counted  *)
(* in units of 10^-FracDigits, which is exact for every quantity field the *)
(* model serves.                                                           *)
(***************************************************************************)
EXTENDS Integers, Sequences, FiniteSets, TLC

(***************************************************************************)
(* Bounds of the model.                                                    *)
(***************************************************************************)
\* most files findFiles returns in the run of the whole pipeline
MaxFiles == 3
\* most data rows the source reader serves for one file
MaxRows == 4
\* The rollover threshold.  The code sets 10 * 1 << 20 bytes
\* (cmd/bepensa/main.go:23); the model scales it down so that one long row
\* or two short rows pass it.  Scopes adds a run under a threshold of 100.
MaxFileSize == 12

(***************************************************************************)
(* Program constants.                                                      *)
(***************************************************************************)
InBucket == "bucket_rmscm02056_yalo"
OutBucket == "cmrc-integrations"
RootFolder == "mx_sellout"
\* index of the quantity field: record[5] in the code, the sixth field
QuantityField == 6
\* digits of the fixed-point representation of a float64 quantity
FracDigits == 5

nil == "nil"

(***************************************************************************)
(* Text helpers.                                                           *)
(***************************************************************************)
Digits == <<"0", "1", "2", "3", "4", "5", "6", "7", "8", "9">>

IsDigit(c) == \E d \in 1..10 : Digits[d] = c

DigitVal(c) == (CHOOSE d \in 1..10 : Digits[d] = c) - 1

RECURSIVE Pow10(_)
Pow10(n) == IF n = 0 THEN 1 ELSE 10 * Pow10(n - 1)

\* the value of a sequence of digits read as a decimal integer
RECURSIVE DecValue(_)
DecValue(ds) ==
    IF ds = <<>> THEN 0
    ELSE 10 * DecValue(SubSeq(ds, 1, Len(ds) - 1)) + DigitVal(ds[Len(ds)])

\* the digits of the fraction, cut or zero-filled to FracDigits digits
FracValue(ds) ==
    IF Len(ds) >= FracDigits THEN DecValue(SubSeq(ds, 1, FracDigits))
    ELSE DecValue(ds) * Pow10(FracDigits - Len(ds))

\* strconv.ParseFloat(s, 64) on decimal text: [sign] digits [. digits],
\* with a digit on at least one side of the point.  Anything else is a
\* syntax error.  The value is in units of 10^-FracDigits.  Exponents,
\* hexadecimal text, "Inf" and "NaN" are not among the fields the model serves.
ParseFloat(s) ==
    LET signed == s /= <<>> /\ s[1] \in {"+", "-"}
        body == IF signed THEN SubSeq(s, 2, Len(s)) ELSE s
        dots == {k \in 1..Len(body) : body[k] = "."}
        dot == IF dots = {} THEN Len(body) + 1 ELSE CHOOSE k \in dots : TRUE
        int == SubSeq(body, 1, dot - 1)
        frac == SubSeq(body, dot + 1, Len(body))
        wellFormed ==
            /\ Cardinality(dots) <= 1
            /\ Len(int) + Len(frac) > 0
            /\ \A k \in 1..Len(int) : IsDigit(int[k])
            /\ \A k \in 1..Len(frac) : IsDigit(frac[k])
        magnitude == DecValue(int) * Pow10(FracDigits) + FracValue(frac)
    IN  IF ~wellFormed THEN [err |-> "syntax", val |-> 0]
        ELSE [err |-> nil,
              val |-> IF signed /\ s[1] = "-" THEN 0 - magnitude ELSE magnitude]

\* the float64 constant 0.0001 of the inclusion test
Epsilon == ParseFloat(<<"0", ".", "0", "0", "0", "1">>).val

\* strings.Join(record, ",")
RECURSIVE Join(_)
Join(record) ==
    IF record = <<>> THEN <<>>
    ELSE IF Len(record) = 1 THEN record[1]
    ELSE record[1] \o <<",">> \o Join(Tail(record))

\* fmt.Sprintf("%06d", i) for i >= 0: at least six digits, zero-padded
RECURSIVE DecDigits(_)
DecDigits(n) ==
    IF n < 10 THEN <<Digits[n + 1]>>
    ELSE DecDigits(n \div 10) \o <<Digits[(n % 10) + 1]>>

RECURSIVE ZeroPad(_, _)
ZeroPad(ds, width) == IF Len(ds) >= width THEN ds ELSE ZeroPad(<<"0">> \o ds, width)

Format06d(n) == ZeroPad(DecDigits(n), 6)

(***************************************************************************)
(* Data.                                                                   *)
(***************************************************************************)
\* type File struct { Bucket, Name }
File(bucket, name) == [Bucket |-> bucket, Name |-> name]

\* the zero value of File
NoFile == File("", <<>>)

\* the name of the k-th object the listing returns, under RootFolder + "/"
FileName(k) == <<RootFolder, "/", "f", Digits[k + 1], ".csv">>

\* The header record of a source file.  It has six fields, and the csv
\* reader yields only records with as many fields as the header, so that
\* record[5] exists in every data record; with a shorter header record[5]
\* panics, a case the model leaves out.
Header == <<<<"i", "d">>, <<"a">>, <<"b">>, <<"c">>, <<"d">>, <<"q", "t", "y">>>>

\* the quantity fields a source file may hold: well above the threshold,
\* just above it, exactly on it, zero, negative, and not a number
Quantities ==
    { <<"5">>,
      <<"0", ".", "0", "0", "0", "2">>,
      <<"0", ".", "0", "0", "0", "1">>,
      <<"0">>,
      <<"-", "5">>,
      <<"a", "b", "c">> }

\* the quantity fields of the runs over several files: a row long enough to
\* fill a part, and a row that does not parse
RunQuantities == { <<"0", ".", "0", "0", "0", "2">>, <<"a", "b", "c">> }

\* a quantity field of 49 characters, 5.000...0: a record that holds it
\* counts 60 bytes
LongQuantity == <<"5", ".">> \o [k \in 1..47 |-> "0"]

\* What the environment may hold, and the rollover threshold of the run: a
\* single source file with any of the quantity fields; up to MaxFiles files
\* with the fields of RunQuantities; a single source file of 60-byte rows
\* under a threshold of 100 bytes.
Scopes ==
    { [maxFiles |-> 1, quantities |-> Quantities, maxFileSize |-> MaxFileSize],
      [maxFiles |-> MaxFiles, quantities |-> RunQuantities, maxFileSize |-> MaxFileSize],
      [maxFiles |-> 1, quantities |-> {LongQuantity}, maxFileSize |-> 100] }

\* the i-th data record of a source file, holding quantity field q; the
\* csv reader yields records with as many fields as the header
Record(i, q) == <<DecDigits(i), <<"a">>, <<"b">>, <<"c">>, <<"d">>, q>>

(***************************************************************************)
(* State.                                                                  *)
(***************************************************************************)
VARIABLES
    scope,        \* what the environment holds in this run, one of Scopes
    pc,           \* position of the program: "find", "files", "split_open",
                  \* "split_loop", "parts", "report", "done", "aborted", "panic"
    \* ---- main
    files,        \* the files findFiles returned
    filesExecs,   \* per file, the execution ids of its parts
    i, j,         \* loop variables of main's two range loops
    fi, fp,       \* the file and the part the loops are at
    err,          \* main's err
    parts,        \* what the latest splitFile call returned
    fileCursor,   \* how many files the outer range has visited
    partCursor,   \* how many parts the inner range has visited
    diag,         \* the "Error ingesting" diagnostic, once printed
    \* ---- splitFile (locals of the running or latest call)
    header,       \* the header record
    rowIndex,     \* the loop variable i of splitFile
    wc,           \* the open part: an index into store, 0 for nil
    bytesWritten, \* bytes accounted to the open part
    splitFiles,   \* the local files slice
    \* ---- the collaborators of the running or latest splitFile call
    readerOpen,   \* the source reader r is open
    srcRows,      \* the data records reader.Read() has served so far
    store,        \* the destination objects the call has opened, in order
    buf,          \* records handed to the csv writer and not yet flushed
    writerErr,    \* the write error the csv writer holds, once a flush failed
    \* ---- observation
    splitErr,     \* "running" during a splitFile call, then the error it returned
    nSplit,       \* splitFile calls made so far
    splitLog,     \* per returned splitFile call: the file, the error, the parts
    ingestLog     \* per ingestFile call: the part, the error, the id, the client calls

mainVars == <<files, filesExecs, i, j, fi, fp, err, parts, fileCursor, partCursor, diag>>

splitVars == <<header, rowIndex, wc, bytesWritten, splitFiles>>

envVars == <<readerOpen, srcRows, store, buf, writerErr>>

obsVars == <<splitErr, nSplit, splitLog, ingestLog>>

vars == <<scope, pc, mainVars, splitVars, envVars, obsVars>>

NoDiag == [file |-> NoFile, part |-> NoFile, err |-> nil]

Init ==
    /\ scope \in Scopes
    /\ pc = "find"
    /\ files = <<>>
    /\ filesExecs = <<>>
    /\ i = 0
    /\ j = 0
    /\ fi = NoFile
    /\ fp = NoFile
    /\ err = nil
    /\ parts = <<>>
    /\ fileCursor = 0
    /\ partCursor = 0
    /\ diag = NoDiag
    /\ header = <<>>
    /\ rowIndex = 0
    /\ wc = 0
    /\ bytesWritten = 0
    /\ splitFiles = <<>>
    /\ readerOpen = FALSE
    /\ srcRows = <<>>
    /\ store = <<>>
    /\ buf = <<>>
    /\ writerErr = FALSE
    /\ splitErr = nil
    /\ nSplit = 0
    /\ splitLog = <<>>
    /\ ingestLog = <<>>

(***************************************************************************)
(* findFiles and main's loops.                                             *)
(***************************************************************************)
\* findFiles: the listing yields n objects, each paired with the bucket
FoundFiles(bucket, n) == [k \in 1..n |-> File(bucket, FileName(k))]

\* files, err := findFiles(...); filesExecs := make([][]string, len(files))
FindFiles ==
    /\ UNCHANGED scope
    /\ pc = "find"
    /\ \E n \in 0..scope.maxFiles :
        /\ files' = FoundFiles(InBucket, n)
        /\ filesExecs' = [k \in 1..n |-> <<>>]
    /\ pc' = "files"
    /\ UNCHANGED <<i, j, fi, fp, err, parts, fileCursor, partCursor, diag>>
    /\ UNCHANGED <<splitVars, envVars, obsVars>>

\* it.Next() returns an error other than iterator.Done: panic(err)
FindFilesPanic ==
    /\ UNCHANGED scope
    /\ pc = "find"
    /\ pc' = "panic"
    /\ UNCHANGED <<mainVars, splitVars, envVars, obsVars>>

\* for i, fi = range files: the next file, and the call of splitFile on it
NextFile ==
    /\ UNCHANGED scope
    /\ pc = "files"
    /\ fileCursor < Len(files)
    /\ i' = fileCursor
    /\ fi' = files[fileCursor + 1]
    /\ fileCursor' = fileCursor + 1
    /\ pc' = "split_open"
    /\ header' = <<>>
    /\ rowIndex' = 0
    /\ wc' = 0
    /\ bytesWritten' = 0
    /\ splitFiles' = <<>>
    /\ readerOpen' = FALSE
    /\ srcRows' = <<>>
    /\ store' = <<>>
    /\ buf' = <<>>
    /\ writerErr' = FALSE
    /\ splitErr' = "running"
    /\ nSplit' = nSplit + 1
    /\ UNCHANGED <<files, filesExecs, j, fp, err, parts, partCursor, diag>>
    /\ UNCHANGED <<splitLog, ingestLog>>

\* the outer range is exhausted
FilesDone ==
    /\ UNCHANGED scope
    /\ pc = "files"
    /\ fileCursor >= Len(files)
    /\ pc' = "report"
    /\ UNCHANGED <<mainVars, splitVars, envVars, obsVars>>

\* a main that goes on to the parts after a failed splitFile
SplitFailedNever(e) == FALSE

\* if err != nil { break Files } after splitFile
SplitFailed(e) == e /= nil

\* the empty string
EmptyString == <<>>

\* make([]string, n): n empty strings
MakeStrings(n) == [k \in 1..n |-> EmptyString]

\* splitFile returns (fs, e) to main, its deferred r.Close() having run;
\* main stores the result, prints the count and breaks or starts on the parts
SplitReturn(fs, e) ==
    /\ readerOpen' = FALSE
    /\ parts' = fs
    /\ err' = e
    /\ splitErr' = e
    /\ splitLog' = Append(splitLog, [file |-> fi, err |-> e, parts |-> fs])
    /\ IF SplitFailed(e)
       THEN /\ pc' = "report"
            /\ UNCHANGED filesExecs
       ELSE /\ pc' = "parts"
            /\ filesExecs' = [filesExecs EXCEPT ![i + 1] = MakeStrings(Len(fs))]
    /\ partCursor' = 0
    /\ UNCHANGED <<scope, files, i, j, fi, fp, fileCursor, diag, nSplit, ingestLog>>

\* the execution id the executions service answers for a rendered part
ExecutionId(part) == <<"exec">> \o part.Name

\* a main that goes on after a failed ingestFile
IngestFailedNever(e) == FALSE

\* if err != nil { break Files } after ingestFile
IngestFailed(e) == e /= nil

\* a main that stores every id of a file in the file's first slot
RecordExecutionAtFirst(execs, fileIdx, partIdx, id) ==
    [execs EXCEPT ![fileIdx + 1][1] = id]

\* filesExecs[i][j] = id
RecordExecution(execs, fileIdx, partIdx, id) ==
    [execs EXCEPT ![fileIdx + 1][partIdx + 1] = id]

TemplateName == "bepensa-order"
BotId == "bepensa-mx-prd"
StorefrontName == "bepensa-mx-b2b"
KeyExpression == "Record.get('id')"

\* http.StatusOK and http.StatusAccepted
StatusOK == 200
StatusAccepted == 202

\* What c.http.Do(req) and the read of the response body may give: no
\* response at all, or a response with a status and a body that is
\* readable as expected or not.
HttpAnswers ==
    { [sent |-> FALSE, status |-> 0, readable |-> FALSE] } \cup
    { [sent |-> TRUE, status |-> st, readable |-> rd] :
          st \in {StatusOK, StatusAccepted, 500}, rd \in BOOLEAN }

\* the args of ingestFile as json.Marshal writes the map: keys in order
ArgsJson(file) ==
    <<"botId", BotId, "bucket", file.Bucket, "file">> \o file.Name \o
    <<"keyExpression", KeyExpression, "storefrontName", StorefrontName>>

\* the body the templates service answers for a template and its args
RenderedTemplate(name, args) == <<"flow", name>> \o args

\* the object name a rendered flow refers to
FileOfFlow(flow) ==
    LET from == CHOOSE k \in 1..Len(flow) : flow[k] = "file"
        to == CHOOSE k \in 1..Len(flow) : flow[k] = "keyExpression"
    IN  SubSeq(flow, from + 1, to - 1)

\* TemplatesClient.RenderTemplate: POST templates/<name>/render with the
\* args; an error when the request fails, the status is not 200 or the body
\* cannot be read; else the body
RenderTemplate(name, args, answer) ==
    IF ~answer.sent \/ answer.status /= StatusOK \/ ~answer.readable
    THEN [body |-> EmptyString, err |-> "render"]
    ELSE [body |-> RenderedTemplate(name, args), err |-> nil]

\* ExecutionsClient.CreateExecution: POST executions with the flow; an error
\* when the request fails, the status is not 202 or the body is not the
\* expected JSON; else the executionId of the body
CreateExecution(flow, answer) ==
    IF ~answer.sent \/ answer.status /= StatusAccepted \/ ~answer.readable
    THEN [id |-> EmptyString, err |-> "create"]
    ELSE [id |-> ExecutionId(File(OutBucket, FileOfFlow(flow))), err |-> nil]

\* a record of one call of a client: the operation, what was sent, and
\* whether the call returned without error
ClientCall(op, payload, e) == [op |-> op, payload |-> payload, ok |-> e = nil]

\* a variant that creates the execution whatever RenderTemplate returned
IngestFileUnchecked(file, renderAnswer, createAnswer) ==
    LET args == ArgsJson(file)
        r == RenderTemplate(TemplateName, args, renderAnswer)
        c == CreateExecution(RenderedTemplate(TemplateName, args), createAnswer)
    IN  [id |-> c.id, err |-> c.err,
         calls |-> << ClientCall("render", <<TemplateName>> \o args, r.err),
                      ClientCall("create", RenderedTemplate(TemplateName, args), c.err) >>]

\* ingestFile: RenderTemplate; on its error return "", err; else
\* CreateExecution with the rendered template, and return what it returns.
\* calls is the sequence of client calls made.
IngestFile(file, renderAnswer, createAnswer) ==
    LET args == ArgsJson(file)
        r == RenderTemplate(TemplateName, args, renderAnswer)
        c == CreateExecution(r.body, createAnswer)
    IN  IF r.err /= nil
        THEN [id |-> EmptyString, err |-> r.err,
              calls |-> << ClientCall("render", <<TemplateName>> \o args, r.err) >>]
        ELSE [id |-> c.id, err |-> c.err,
              calls |-> << ClientCall("render", <<TemplateName>> \o args, r.err),
                           ClientCall("create", r.body, c.err) >>]

\* what ingestFile may return for a part, over the answers of the services
IngestOutcomes(part) ==
    { IngestFile(part, ra, ca) : ra \in HttpAnswers, ca \in HttpAnswers }

\* for j, fp = range parts: the next part, ingestFile on it, and the result
IngestPart ==
    /\ UNCHANGED scope
    /\ pc = "parts"
    /\ partCursor < Len(parts)
    /\ j' = partCursor
    /\ fp' = parts[partCursor + 1]
    /\ partCursor' = partCursor + 1
    /\ \E r \in IngestOutcomes(parts[partCursor + 1]) :
        /\ ingestLog' = Append(ingestLog,
                               [part |-> parts[partCursor + 1], err |-> r.err, id |-> r.id,
                                calls |-> r.calls])
        /\ err' = r.err
        /\ IF IngestFailed(r.err)
           THEN /\ pc' = "report"
                /\ UNCHANGED filesExecs
           ELSE /\ pc' = "parts"
                /\ filesExecs' = RecordExecution(filesExecs, i, partCursor, r.id)
    /\ UNCHANGED <<files, i, fi, parts, fileCursor, diag, splitErr, nSplit, splitLog>>
    /\ UNCHANGED <<splitVars, envVars>>

\* the inner range is exhausted: on to the next file
PartsDone ==
    /\ UNCHANGED scope
    /\ pc = "parts"
    /\ partCursor >= Len(parts)
    /\ pc' = "files"
    /\ UNCHANGED <<mainVars, splitVars, envVars, obsVars>>

\* after the loops: the diagnostic if err is set, then every file's ids
Report ==
    /\ UNCHANGED scope
    /\ pc = "report"
    /\ diag' = IF err /= nil THEN [file |-> fi, part |-> fp, err |-> err] ELSE NoDiag
    /\ pc' = IF err /= nil THEN "aborted" ELSE "done"
    /\ UNCHANGED <<files, filesExecs, i, j, fi, fp, err, parts, fileCursor, partCursor>>
    /\ UNCHANGED <<splitVars, envVars, obsVars>>

(***************************************************************************)
(* splitFile.                                                              *)
(***************************************************************************)
\* a variant that never rolls over on size
NeedNewPartFirstOnly(w, bytes) == w = 0

\* if wc == nil || bytesWritten > MaxFileSize, the threshold being the one
\* of the run
NeedNewPart(w, bytes) == w = 0 \/ bytes > scope.maxFileSize

\* fmt.Sprintf(file.Name+"_part_%06d.csv", i)
\* a variant that numbers the parts of a file 0, 1, 2, ... in opening order
PartFileNameSequential(name, idx) ==
    name \o <<"_part_">> \o Format06d(Len(store)) \o <<".csv">>

PartFileName(name, idx) == name \o <<"_part_">> \o Format06d(idx) \o <<".csv">>

\* objPart.NewWriter(ctx) with ContentType "text/csv": an open handle on a
\* destination object nothing has been written to.  status is "open" until
\* Close, then "closed" (the object is committed) or "failed".
NewWriter(name) ==
    [Name |-> name, ContentType |-> "text/csv", rows |-> <<>>, status |-> "open"]

\* a splitFile that opens a part without writing the header
NewPartBufferNoHeader(h) == <<>>

\* csv.NewWriter(wc) followed by writer.Write(header): the new writer's buffer
NewPartBuffer(h) == <<h>>

\* if row5-0. > 0.0001
Included(row5) == row5 - 0 > Epsilon

\* a variant that leaves out the line terminator
RecordBytesNoNewline(record) == Len(Join(record))

\* len([]byte(strings.Join(record, ","))) + len([]byte("\n"))
RecordBytes(record) == Len(Join(record)) + Len(<<"\n">>)

\* a variant that keeps the count of the part before
ResetBytesWrittenKeep(bytes) == bytes

\* bytesWritten = 0, once the new part is open and holds the header
ResetBytesWritten(bytes) == 0

\* wc.Close(): fails when a write to wc already failed (the storage writer
\* keeps its error and returns it from Close), or on its own
CloseFails(closeOk) == writerErr \/ ~closeOk

\* The body of the row loop for one record read without error: rollover
\* check, close and open of parts, parse, inclusion, write, flush, size
\* accounting.  closeOk, headerOk, writeOk and flushOk are what the
\* destination answers.  err is the error the iteration returns with, or nil
\* when the loop goes on.
Iteration(record, closeOk, headerOk, writeOk, flushOk) ==
    LET rollover == NeedNewPart(wc, bytesWritten)
        closing == rollover /\ wc /= 0
        closeErr == closing /\ CloseFails(closeOk)
        storeC == IF closing
                  THEN [store EXCEPT ![wc].status =
                            IF closeErr THEN "failed" ELSE "closed"]
                  ELSE store
        filesC == IF closing /\ ~closeErr
                  THEN Append(splitFiles, File(OutBucket, store[wc].Name))
                  ELSE splitFiles
        opened == rollover /\ ~closeErr
        storeO == IF opened
                  THEN Append(storeC, NewWriter(PartFileName(fi.Name, rowIndex)))
                  ELSE storeC
        wcO == IF opened THEN Len(storeO) ELSE wc
        headerErr == opened /\ ~headerOk
        bufO == IF ~opened THEN buf
                ELSE IF headerErr THEN <<>> ELSE NewPartBuffer(header)
        werrO == IF opened THEN FALSE ELSE writerErr
        bytesO == IF opened /\ ~headerErr
                  THEN ResetBytesWritten(bytesWritten) ELSE bytesWritten
        row5 == ParseFloat(record[QuantityField])
        writeErr == Included(row5.val) /\ (werrO \/ ~writeOk)
        bufW == IF Included(row5.val) /\ ~writeErr THEN Append(bufO, record) ELSE bufO
        flushErr == bufW /= <<>> /\ (werrO \/ ~flushOk)
        storeF == IF flushErr \/ bufW = <<>> THEN storeO
                  ELSE [storeO EXCEPT ![wcO].rows = @ \o bufW]
        bytesF == IF Included(row5.val) THEN bytesO + RecordBytes(record) ELSE bytesO
    IN  IF closeErr THEN
            [err |-> "close", files |-> splitFiles, store |-> storeC, wc |-> wc,
             buf |-> buf, writerErr |-> writerErr, bytesWritten |-> bytesWritten]
        ELSE IF headerErr THEN
            [err |-> "write_header", files |-> filesC, store |-> storeO, wc |-> wcO,
             buf |-> bufO, writerErr |-> werrO, bytesWritten |-> bytesO]
        ELSE IF row5.err /= nil THEN
            [err |-> "parse", files |-> filesC, store |-> storeO, wc |-> wcO,
             buf |-> bufO, writerErr |-> werrO, bytesWritten |-> bytesO]
        ELSE IF writeErr THEN
            [err |-> "write", files |-> filesC, store |-> storeO, wc |-> wcO,
             buf |-> bufO, writerErr |-> werrO, bytesWritten |-> bytesO]
        ELSE
            [err |-> nil, files |-> filesC, store |-> storeF, wc |-> wcO,
             buf |-> IF flushErr THEN bufW ELSE <<>>,
             writerErr |-> werrO \/ flushErr, bytesWritten |-> bytesF]

\* obj.NewReader(ctx) fails: return nil, err
SplitOpenError ==
    /\ pc = "split_open"
    /\ SplitReturn(<<>>, "open")
    /\ UNCHANGED <<splitVars, srcRows, store, buf, writerErr>>

\* the reader opens, reader.Read() of the header fails: return nil, err
SplitHeaderError ==
    /\ pc = "split_open"
    /\ SplitReturn(<<>>, "header")
    /\ UNCHANGED <<splitVars, srcRows, store, buf, writerErr>>

\* the reader opens (defer r.Close()) and the header is read
SplitOpen ==
    /\ UNCHANGED scope
    /\ pc = "split_open"
    /\ readerOpen' = TRUE
    /\ header' = Header
    /\ pc' = "split_loop"
    /\ UNCHANGED <<rowIndex, wc, bytesWritten, splitFiles>>
    /\ UNCHANGED <<srcRows, store, buf, writerErr>>
    /\ UNCHANGED <<mainVars, obsVars>>

\* what splitFile returns beside the error when reader.Read() fails on a row
ReadErrorFiles(fs) == <<>>

\* reader.Read() of a data row fails: return nil, err
SplitReadError ==
    /\ pc = "split_loop"
    /\ SplitReturn(ReadErrorFiles(splitFiles), "read")
    /\ UNCHANGED <<splitVars, srcRows, store, buf, writerErr>>

\* one iteration of the row loop on a record the reader served
SplitRow ==
    /\ pc = "split_loop"
    /\ Len(srcRows) < MaxRows
    /\ \E q \in scope.quantities, closeOk, headerOk, writeOk, flushOk \in BOOLEAN :
        LET record == Record(rowIndex, q)
            it == Iteration(record, closeOk, headerOk, writeOk, flushOk)
        IN  /\ srcRows' = Append(srcRows, record)
            /\ store' = it.store
            /\ wc' = it.wc
            /\ buf' = it.buf
            /\ writerErr' = it.writerErr
            /\ bytesWritten' = it.bytesWritten
            /\ splitFiles' = it.files
            /\ IF it.err /= nil
               THEN /\ SplitReturn(it.files, it.err)
                    /\ UNCHANGED <<header, rowIndex>>
               ELSE /\ rowIndex' = rowIndex + 1
                    /\ pc' = "split_loop"
                    /\ UNCHANGED <<scope, header, readerOpen, mainVars, obsVars>>

\* a variant that appends the reference of the current part, open or not
EndOfInputFilesWithCurrent(fs, w) ==
    Append(fs, File(OutBucket, IF w = 0 THEN EmptyString ELSE store[w].Name))

\* what splitFile returns after the loop: files as the loop left it
EndOfInputFiles(fs, w) == fs

\* reader.Read() returns io.EOF: break; if wc != nil { wc.Close() };
\* return files, nil
SplitEOF ==
    /\ pc = "split_loop"
    /\ \E closeOk \in BOOLEAN :
        store' = IF wc = 0 THEN store
                 ELSE [store EXCEPT ![wc].status =
                           IF CloseFails(closeOk) THEN "failed" ELSE "closed"]
    /\ SplitReturn(EndOfInputFiles(splitFiles, wc), nil)
    /\ UNCHANGED <<splitVars, srcRows, buf, writerErr>>

(***************************************************************************)
(* The program.                                                            *)
(***************************************************************************)
Next ==
    \/ FindFiles
    \/ FindFilesPanic
    \/ NextFile
    \/ FilesDone
    \/ SplitOpenError
    \/ SplitHeaderError
    \/ SplitOpen
    \/ SplitReadError
    \/ SplitRow
    \/ SplitEOF
    \/ IngestPart
    \/ PartsDone
    \/ Report

Spec == Init /\ [][Next]_vars

(***************************************************************************)
(* Vocabulary of the properties.                                           *)
(***************************************************************************)
\* the latest splitFile call has returned to main
SplitReturned == nSplit > 0 /\ splitErr /= "running"

\* the latest splitFile call has returned without error
SplitSucceeded == SplitReturned /\ splitErr = nil

Abs(v) == IF v < 0 THEN 0 - v ELSE v

\* the inclusion filter as specified: |quantity| > 0.0001
PassesFilter(record) ==
    LET row5 == ParseFloat(record[QuantityField])
    IN  row5.err = nil /\ Abs(row5.val) > Epsilon

\* every record handed to the csv writer of the k-th part opened by the call
Written(k) == store[k].rows \o (IF k = wc THEN buf ELSE <<>>)

\* the destination object a FileRef names
Object(f) == store[CHOOSE k \in 1..Len(store) : store[k].Name = f.Name]

\* the rows of a part after its first row
DataRows(f) == IF Object(f).rows = <<>> THEN <<>> ELSE Tail(Object(f).rows)

\* the data rows of a sequence of parts, one part after the other
RECURSIVE ConcatDataRows(_)
ConcatDataRows(fs) ==
    IF fs = <<>> THEN <<>> ELSE DataRows(Head(fs)) \o ConcatDataRows(Tail(fs))

\* the FileRefs of the parts the call opened, in opening order
OpenedParts == [k \in 1..Len(store) |-> File(OutBucket, store[k].Name)]

\* the FileRefs of the parts the call closed without error, in opening order
ClosedParts ==
    LET closed == SelectSeq(store, LAMBDA o : o.status = "closed")
    IN  [k \in 1..Len(closed) |-> File(OutBucket, closed[k].Name)]

\* no write, flush or close on a destination object has failed in the call
NoDestinationFailure ==
    ~writerErr /\ \A k \in 1..Len(store) : store[k].status /= "failed"

\* the client calls of an ingestFile that succeeded on part
CallsOf(part) ==
    LET args == ArgsJson(part)
    IN  << [op |-> "render", payload |-> <<TemplateName>> \o args, ok |-> TRUE],
           [op |-> "create", payload |-> <<"flow", TemplateName>> \o args, ok |-> TRUE] >>

\* the ingestFile calls of a run in which every split and ingest succeeded
RECURSIVE IngestsOf(_)
IngestsOf(log) ==
    IF log = <<>> THEN <<>>
    ELSE IngestsOf(SubSeq(log, 1, Len(log) - 1)) \o
         [m \in 1..Len(log[Len(log)].parts) |->
             [part |-> log[Len(log)].parts[m], err |-> nil,
              id |-> ExecutionId(log[Len(log)].parts[m]),
              calls |-> CallsOf(log[Len(log)].parts[m])]]

\* the ids main holds for a file whose parts were all ingested
IdsOf(fs) == [m \in 1..Len(fs) |-> ExecutionId(fs[m])]

\* every discovered file was split and every returned part ingested, without error
RunComplete ==
    /\ Len(splitLog) = Len(files)
    /\ \A k \in 1..Len(files) :
        /\ splitLog[k].file = files[k]
        /\ splitLog[k].err = nil
        /\ filesExecs[k] = IdsOf(splitLog[k].parts)
    /\ ingestLog = IngestsOf(splitLog)

\* main's err holds an error ingestFile returned
IngestError == err \in {"render", "create"}

(***************************************************************************)
(* C1.  On every successful return of splitFile, the data rows of the      *)
(* returned parts, concatenated in returned order, are exactly the source  *)
(* rows that pass the inclusion filter, in source order.  Stated for the    *)
(* calls in which no destination operation failed.                         *)
(* The code does not return the part that is open at end of input (C3),    *)
(* drops rows of negative quantity (C2) and returns success after a failed *)
(* flush or final close (C7), so the statement fails.                      *)
(***************************************************************************)
C1_ReturnedPartsHoldFilteredRows ==
    SplitSucceeded /\ NoDestinationFailure
        => ConcatDataRows(parts) = SelectSeq(srcRows, PassesFilter)

(***************************************************************************)
(* C2.  While the row loop runs, a row read so far has been written into   *)
(* a part if and only if the absolute value of its quantity exceeds        *)
(* 0.0001 (stated for the calls in which no destination operation has      *)
(* failed).  The code tests row5 > 0.0001 without the absolute value, so a  *)
(* row of quantity -5 is dropped.                                          *)
(***************************************************************************)
C2_WrittenIffAbsAboveEpsilon ==
    pc = "split_loop" /\ NoDestinationFailure =>
        \A n \in 1..Len(srcRows) :
            (\E k \in 1..Len(store) :
                \E m \in 1..Len(Written(k)) : Written(k)[m] = srcRows[n])
            <=> PassesFilter(srcRows[n])

(***************************************************************************)
(* C3.  On every successful return of splitFile, every part opened during  *)
(* the call, the last one included, is in the returned sequence exactly    *)
(* once, in opening order (stated for the calls in which no destination    *)
(* operation failed).  The code closes the last part after the loop   *)
(* without appending its FileRef to files.                                 *)
(***************************************************************************)
C3_EveryOpenedPartReturned ==
    SplitSucceeded /\ NoDestinationFailure => parts = OpenedParts

(***************************************************************************)
(* C4.  Once err is set, no further splitFile or ingestFile call is made   *)
(* and the program only moves on to the report and stays aborted; and the  *)
(* run ends as done only if every discovered file was split without error  *)
(* and every part splitFile returned was ingested without error.           *)
(***************************************************************************)
C4_AbortTerminalDoneComplete ==
    /\ [][err /= nil =>
            /\ nSplit' = nSplit
            /\ ingestLog' = ingestLog
            /\ pc' \in {"report", "aborted"}]_vars
    /\ [](pc = "done" => RunComplete)

\* the run aborted on a failed ingest with parts and files left over
C4_Witness ==
    /\ pc = "aborted"
    /\ IngestError
    /\ partCursor < Len(parts)
    /\ fileCursor < Len(files)

C6_ErrorReturnsClosedParts ==
    SplitReturned /\ splitErr /= nil => parts = ClosedParts

(***************************************************************************)
(* C7.  splitFile never returns success after a destination write, flush   *)
(* or close failed.  The code does not check the flush (nor the writer's   *)
(* Error()) and ignores the result of the last wc.Close().                 *)
(***************************************************************************)
C7_DestinationFailureIsFatal ==
    SplitSucceeded => NoDestinationFailure

(***************************************************************************)
(* C8.  Whenever splitFile has returned, the source reader is closed and   *)
(* no destination write handle the call opened is still open (stated for   *)
(* the returns the input alone decides: success, a read error, a quantity  *)
(* that does not parse).  The code returns from its error paths without    *)
(* closing wc.                                                             *)
(***************************************************************************)
C8_HandlesReleasedOnReturn ==
    SplitReturned /\ splitErr \in {nil, "read", "parse"} =>
        /\ ~readerOpen
        /\ \A k \in 1..Len(store) : store[k].status /= "open"

(***************************************************************************)
(* C9.  What is written to a part starts with the source's header record,  *)
(* followed by data records of the source only; and a part that was closed *)
(* without error holds the header as its first row.                        *)
(***************************************************************************)
C9_HeaderFirst ==
    \A k \in 1..Len(store) :
        /\ Written(k) /= <<>> =>
            /\ Written(k)[1] = header
            /\ \A m \in 2..Len(Written(k)) :
                \E n \in 1..Len(srcRows) : Written(k)[m] = srcRows[n]
        /\ store[k].status = "closed" =>
            /\ store[k].rows /= <<>>
            /\ store[k].rows[1] = header

\* a returned part that holds the header and two data rows
C9_Witness ==
    /\ SplitSucceeded
    /\ Len(parts) >= 1
    /\ Len(Object(parts[1]).rows) = 3
    /\ Object(parts[1]).rows[1] = Header

(***************************************************************************)
(* C10.  A source file whose only data row fails the inclusion filter      *)
(* yields exactly one part, holding the header row only (stated for the    *)
(* calls in which no destination operation failed).  The code opens that   *)
(* part and writes the header to it, but returns no FileRef for it (C3).   *)
(***************************************************************************)
C10_OneHeaderOnlyPart ==
    /\ SplitSucceeded
    /\ NoDestinationFailure
    /\ Len(srcRows) = 1
    /\ ~PassesFilter(srcRows[1])
    => /\ Len(parts) = 1
       /\ Object(parts[1]).rows = <<header>>

(***************************************************************************)
(* Vocabulary of the later properties.                                     *)
(***************************************************************************)
\* the bytes a row counts: the length of the comma-joined record, plus one
RowSize(record) == Len(Join(record)) + 1

RECURSIVE SumRowSizes(_)
SumRowSizes(rows) ==
    IF rows = <<>> THEN 0 ELSE RowSize(Head(rows)) + SumRowSizes(Tail(rows))

\* the data records handed to the csv writer of the k-th part
DataWritten(k) == IF Written(k) = <<>> THEN <<>> ELSE Tail(Written(k))

(***************************************************************************)
(* C11.  Under a threshold of 100 bytes, a source of three data rows that  *)
(* all pass the filter and count 60 bytes each yields two parts: the first *)
(* holds rows 1 and 2, the second holds row 3 (stated for the calls in     *)
(* which no destination operation failed).  The code opens and writes      *)
(* these two parts, but returns the first only (C3).                       *)
(***************************************************************************)
C11_TwoPartsOfSixtyByteRows ==
    /\ SplitSucceeded
    /\ NoDestinationFailure
    /\ scope.maxFileSize = 100
    /\ Len(srcRows) = 3
    /\ \A n \in 1..3 : PassesFilter(srcRows[n]) /\ RowSize(srcRows[n]) = 60
    => /\ Len(parts) = 2
       /\ DataRows(parts[1]) = <<srcRows[1], srcRows[2]>>
       /\ DataRows(parts[2]) = <<srcRows[3]>>

(***************************************************************************)
(* C12.  On an abort the diagnostic names the offending file and part: the *)
(* file is the one that was being split or ingested, and the part is a     *)
(* part of that file (the one whose ingest failed), never a part of a file *)
(* processed before.  The code prints fp, which after a failed split still *)
(* holds the last part ingested of the previous file.                      *)
(***************************************************************************)
IsPrefix(p, s) == Len(p) <= Len(s) /\ SubSeq(s, 1, Len(p)) = p

\* part is named as a part of file
PartOfFile(part, file) == IsPrefix(file.Name \o <<"_part_">>, part.Name)

C12_DiagnosticNamesOffendingPart ==
    pc = "aborted" =>
        /\ diag.file = splitLog[Len(splitLog)].file
        /\ IngestError =>
               /\ diag.part = ingestLog[Len(ingestLog)].part
               /\ PartOfFile(diag.part, diag.file)
        /\ \A k \in 1..(Len(splitLog) - 1) :
               ~ PartOfFile(diag.part, splitLog[k].file)

(***************************************************************************)
(* C13.  The accumulated byte count is 0 right after a part is opened, is  *)
(* reset only when a new part is opened, and never decreases between two   *)
(* openings.  Checked on every step of the row loop: a step that opened a  *)
(* part (and wrote its header) leaves the count at the bytes of the rows   *)
(* handed to that part since, nothing of the part before; a step that      *)
(* opened none does not lower the count.                                   *)
(***************************************************************************)
C13_ByteCountResetOnlyOnOpen ==
    [][ pc = "split_loop" =>
          LET opened == Len(store') > Len(store)
          IN  /\ opened /\ splitErr' /= "write_header" =>
                     bytesWritten' = SumRowSizes((DataWritten(wc))')
              /\ ~ opened => bytesWritten' >= bytesWritten
              /\ bytesWritten' < bytesWritten => opened ]_vars

\* a second part was opened by a row that is dropped: the count is 0 again
C13_Witness ==
    /\ pc = "split_loop"
    /\ Len(store) >= 2
    /\ wc = Len(store)
    /\ bytesWritten = 0
    /\ SumRowSizes(DataWritten(wc - 1)) > scope.maxFileSize

(***************************************************************************)
(* C14.  A source that holds the header and no data row produces zero      *)
(* parts: no destination object is opened, and the call returns the empty  *)
(* sequence without error.                                                 *)
(***************************************************************************)
C14_HeaderOnlyYieldsNoPart ==
    /\ nSplit > 0 /\ srcRows = <<>> => store = <<>> /\ wc = 0
    /\ SplitSucceeded /\ srcRows = <<>> => parts = <<>> /\ err = nil

\* the end of input was met at the first read of a data row
C14_Witness ==
    /\ SplitSucceeded
    /\ header = Header
    /\ srcRows = <<>>
    /\ pc = "parts"

(***************************************************************************)
(* C15.  In a run that ends without error, every part object splitFile     *)
(* created in the destination store is passed to ingestFile exactly once,  *)
(* in creation order within its file.  Stated for the file split last (the *)
(* one whose objects the store still shows), no destination operation      *)
(* having failed.  The last part created of a file is never returned (C3), *)
(* so it is never ingested.                                                *)
(***************************************************************************)
\* the parts of file passed to ingestFile, in call order
IngestedOfFile(file) ==
    LET calls == SelectSeq(ingestLog, LAMBDA e : PartOfFile(e.part, file))
    IN  [m \in 1..Len(calls) |-> calls[m].part]

C15_EveryCreatedPartIngested ==
    pc = "done" /\ nSplit > 0 /\ NoDestinationFailure
    => IngestedOfFile(fi) = OpenedParts

(***************************************************************************)
(* C16.  When a row is written, the bytes accumulated in the current part  *)
(* before that row are at most the threshold (the rollover test is a       *)
(* strict > made before the row is handled), so the bytes of the rows of   *)
(* a part pass the threshold by at most the bytes of its last row.         *)
(* Checked on the rows handed to the writer of each part, whatever the     *)
(* counter says.                                                           *)
(***************************************************************************)
C16_OvershootAtMostLastRow ==
    \A k \in 1..Len(store) :
        LET rows == DataWritten(k)
        IN  rows /= <<>> =>
              /\ SumRowSizes(SubSeq(rows, 1, Len(rows) - 1)) <= scope.maxFileSize
              /\ SumRowSizes(rows) <= scope.maxFileSize + RowSize(rows[Len(rows)])

\* a part that passed the threshold with its last row and was rolled over
C16_Witness ==
    /\ Len(store) >= 2
    /\ Len(DataWritten(1)) >= 2
    /\ SumRowSizes(DataWritten(1)) > scope.maxFileSize
    /\ DataWritten(2) /= <<>>

(***************************************************************************)
(* C17.  Each part is named with the zero-based index of the data row      *)
(* that triggered its opening, not with a sequential counter: the first    *)
(* part carries index 0, every later part the index of the row that        *)
(* follows the last row written into the part before it, so the indices    *)
(* strictly increase in opening order and no two parts of a source file    *)
(* share a name.                                                           *)
(***************************************************************************)
\* the zero-based index in the source of a data row (rows differ by their id)
SourceIndex(record) ==
    (CHOOSE n \in 1..Len(srcRows) : srcRows[n] = record) - 1

\* the zero-based index of the row at which the k-th part was opened: row 0
\* for the first part, else the row after the one that filled the part before
TriggerIndex(k) ==
    IF k = 1 THEN 0
    ELSE SourceIndex(DataWritten(k - 1)[Len(DataWritten(k - 1))]) + 1

C17_PartNamedByTriggerRow ==
    /\ \A k \in 1..Len(store) :
          /\ k > 1 => DataWritten(k - 1) /= <<>>
          /\ store[k].Name = fi.Name \o <<"_part_">> \o Format06d(TriggerIndex(k))
                                     \o <<".csv">>
    /\ \A k, l \in 1..Len(store) :
          /\ k < l => TriggerIndex(k) < TriggerIndex(l)
          /\ k /= l => store[k].Name /= store[l].Name

\* the second part of a file carries index 2, the third one index 3
C17_Witness ==
    /\ Len(store) = 3
    /\ TriggerIndex(2) = 2
    /\ TriggerIndex(3) = 3
    /\ store[3].Name = fi.Name \o <<"_part_", "0", "0", "0", "0", "0", "3", ".csv">>

(***************************************************************************)
(* C18.  At the end of every iteration of the row loop, bytesWritten is    *)
(* the sum, over exactly the rows written into the part that is open, of   *)
(* the length of the comma-joined record plus one: a row adds its bytes    *)
(* if and only if it was written, a dropped row adds nothing.              *)
(***************************************************************************)
C18_CountMatchesWrittenRows ==
    /\ pc = "split_loop" /\ wc /= 0 => bytesWritten = SumRowSizes(DataWritten(wc))
    /\ pc = "split_loop" /\ wc = 0 => bytesWritten = 0

C18_StepAddsBytesIffWritten ==
    [][ pc = "split_loop" /\ pc' = "split_loop" /\ srcRows' /= srcRows =>
          LET record == srcRows'[Len(srcRows')]
              before == IF Len(store') > Len(store) THEN 0 ELSE bytesWritten
              handed == (DataWritten(wc))' /= <<>> /\
                        (DataWritten(wc))'[Len((DataWritten(wc))')] = record
          IN  bytesWritten' = before + (IF handed THEN RowSize(record) ELSE 0) ]_vars

C18_AccountingFollowsWrites ==
    []C18_CountMatchesWrittenRows /\ C18_StepAddsBytesIffWritten

\* the part that is open holds two written rows, and a row read between
\* them was dropped
C18_Witness ==
    /\ pc = "split_loop"
    /\ wc /= 0
    /\ Len(DataWritten(wc)) = 2
    /\ Len(srcRows) = 3
    /\ DataWritten(wc) = <<srcRows[1], srcRows[3]>>
    /\ bytesWritten = RowSize(DataWritten(wc)[1]) + RowSize(DataWritten(wc)[2])

(***************************************************************************)
(* C19.  A quantity field that does not parse aborts the split of the      *)
(* whole file: splitFile returns an error at that row, the first one that  *)
(* does not parse; the row is written into no part; no later row is read   *)
(* or written; and main ingests no part of that file, even the parts the   *)
(* call returned beside the error.                                         *)
(***************************************************************************)
C19_ParseErrorState ==
    splitErr = "parse" =>
        /\ pc \in {"report", "aborted"}
        /\ err = "parse"
        /\ srcRows /= <<>>
        /\ ParseFloat(srcRows[Len(srcRows)][QuantityField]).err /= nil
        /\ \A n \in 1..(Len(srcRows) - 1) :
               ParseFloat(srcRows[n][QuantityField]).err = nil
        /\ \A k \in 1..Len(store) : \A n \in 1..Len(Written(k)) :
               Written(k)[n] /= srcRows[Len(srcRows)]
        /\ IngestedOfFile(fi) = <<>>
        /\ filesExecs[i + 1] = <<>>

C19_NothingAfterParseError ==
    [][ splitErr = "parse" =>
            /\ splitErr' = "parse"
            /\ srcRows' = srcRows
            /\ store' = store
            /\ buf' = buf
            /\ ingestLog' = ingestLog ]_vars

C19_ParseErrorAbortsFile == []C19_ParseErrorState /\ C19_NothingAfterParseError

\* the call had closed and returned a part before the row that does not
\* parse; the run is over and that part was not ingested
C19_Witness ==
    /\ pc = "aborted"
    /\ splitErr = "parse"
    /\ parts /= <<>>
    /\ Len(srcRows) >= 2
    /\ diag.err = "parse"

(***************************************************************************)
(* C20.  ingestFile calls render first and create only after render has    *)
(* succeeded, passing it the rendered payload; when render fails, create   *)
(* is not called for that part and ingestFile returns the error and no     *)
(* id; neither call is made twice.  Checked on the client calls of every   *)
(* ingestFile call of the run.                                             *)
(***************************************************************************)
C20_RenderThenCreate ==
    \A n \in 1..Len(ingestLog) :
        LET e == ingestLog[n]
            c == e.calls
        IN  /\ Len(c) \in {1, 2}
            /\ c[1].op = "render"
            /\ c[1].payload = <<TemplateName>> \o ArgsJson(e.part)
            /\ Len(c) = 2 <=> c[1].ok
            /\ Len(c) = 2 =>
                  /\ c[2].op = "create"
                  /\ c[2].payload = <<"flow">> \o c[1].payload
                  /\ c[2].ok <=> e.err = nil
            /\ ~ c[1].ok => e.err /= nil /\ e.id = EmptyString
            /\ e.err = nil => e.id /= EmptyString

\* a run in which one ingestFile went through both calls and the next one
\* stopped at a failed render
C20_Witness ==
    /\ Len(ingestLog) >= 2
    /\ Len(ingestLog[1].calls) = 2
    /\ ingestLog[1].err = nil
    /\ Len(ingestLog[Len(ingestLog)].calls) = 1
    /\ ingestLog[Len(ingestLog)].err = "render"
    /\ pc = "aborted"

====
